---- MODULE Spec2Model ----
(***************************************************************************)
(* Model of the process-supervision bridge of the Sophia desktop app:      *)
(*   apps/desktop/src-tauri/src/process.rs  (run_python_transcription)     *)
(*   apps/desktop/src-tauri/src/commands.rs (start_transcription)          *)
(*                                                                         *)
(* Threads: the caller (the tauri command), the supervisor thread spawned  *)
(* at process.rs:23, the stderr reader thread spawned at process.rs:88,    *)
(* and the child process.  The child writes lines to two pipes of bounded  *)
(* capacity (a write blocks while the pipe is full) and then exits, which  *)
(* closes the write ends.  The sink is the tauri event bus (app.emit).     *)
(*                                                                         *)
(* A line of text is a sequence of tokens; serde_json::from_str is         *)
(* modelled by a recursive-descent parser over the tokens.                 *)
(***************************************************************************)
EXTENDS Integers, Sequences, FiniteSets, TLC

\* ------------------------------------------------------------------ bounds

\* The child writes at most MaxLines lines in total (both streams together).
MaxLines == 3

\* Where the call's arguments vary (ArgsSpec): the caller passes at most
\* MaxFiles files and the child writes at most ArgsMaxLines lines.
MaxFiles == 2
ArgsMaxLines == 1

\* Number of lines a pipe holds before a write blocks.
PipeCap == 2

\* ------------------------------------------------------- text and tokens

Tok(k, v) == [k |-> k, v |-> v]
LBrace == Tok("punct", "{")
RBrace == Tok("punct", "}")
LBrack == Tok("punct", "[")
RBrack == Tok("punct", "]")
Colon == Tok("punct", ":")
Comma == Tok("punct", ",")
StrTok(s) == Tok("str", s)
NumTok(s) == Tok("num", s)
LitTok(s) == Tok("lit", s)
WordTok(s) == Tok("word", s)

\* A line as the reader's iterator yields it: ok = FALSE is an Err item
\* (the bytes of the line are not valid UTF-8).
Line(toks) == [ok |-> TRUE, toks |-> toks]
BadLine == [ok |-> FALSE, toks |-> <<>>]

\* {"event":"progress","pct":50}
L_progress ==
    <<LBrace, StrTok("event"), Colon, StrTok("progress"), Comma,
      StrTok("pct"), Colon, NumTok("50"), RBrace>>
\* {"event":"process_exit"}
L_forged == <<LBrace, StrTok("event"), Colon, StrTok("process_exit"), RBrace>>
\* {"pct":50}
L_pct == <<LBrace, StrTok("pct"), Colon, NumTok("50"), RBrace>>
\* {"event":50}
L_evnum == <<LBrace, StrTok("event"), Colon, NumTok("50"), RBrace>>
\* ["event"]
L_arr == <<LBrack, StrTok("event"), RBrack>>
\* hello world
L_hello == <<WordTok("hello"), WordTok("world")>>
\* the empty line
L_empty == <<>>
\* null
L_null == <<LitTok("null")>>

StdoutLines ==
    {Line(L_progress), Line(L_forged), Line(L_pct), Line(L_evnum),
     Line(L_arr), Line(L_null), Line(L_hello), Line(L_empty), BadLine}

StderrLines == {Line(L_hello), Line(L_progress), BadLine}

\* --------------------------------------------------------- JSON values

\* A payload: t is the type tag, s string fragments, l raw line text,
\* a array elements, m object members (key/value pairs, one per key).
Val(t, s, l, a, m) == [t |-> t, s |-> s, l |-> l, a |-> a, m |-> m]
JNull == Val("null", <<>>, <<>>, <<>>, <<>>)
JLit(x) == IF x = "null" THEN JNull ELSE Val("bool", <<x>>, <<>>, <<>>, <<>>)
JNum(x) == Val("num", <<x>>, <<>>, <<>>, <<>>)
JStr(x) == Val("str", <<x>>, <<>>, <<>>, <<>>)
JArr(a) == Val("arr", <<>>, <<>>, a, <<>>)
JObj(m) == Val("obj", <<>>, <<>>, <<>>, m)
\* A Rust String payload built by format!: fragments followed by line text.
Text(s, l) == Val("text", s, l, <<>>, <<>>)

\* Map::insert: a later value for a key replaces the earlier one.
MapInsert(m, k, v) ==
    IF \E i \in DOMAIN m : m[i].key = k
    THEN [i \in DOMAIN m |-> IF m[i].key = k THEN [key |-> k, val |-> v] ELSE m[i]]
    ELSE Append(m, [key |-> k, val |-> v])

PFail == [ok |-> FALSE, val |-> JNull, next |-> 0]
POk(v, n) == [ok |-> TRUE, val |-> v, next |-> n]
IsPunct(toks, i, p) == i <= Len(toks) /\ toks[i] = Tok("punct", p)

RECURSIVE ParseValue(_, _)
RECURSIVE ParseMembers(_, _, _)
RECURSIVE ParseElems(_, _, _)

\* One JSON value starting at token i.
ParseValue(toks, i) ==
    IF i > Len(toks) THEN PFail
    ELSE LET tk == toks[i] IN
         CASE tk.k = "str" -> POk(JStr(tk.v), i + 1)
           [] tk.k = "num" -> POk(JNum(tk.v), i + 1)
           [] tk.k = "lit" -> POk(JLit(tk.v), i + 1)
           [] tk = LBrace ->
                IF IsPunct(toks, i + 1, "}") THEN POk(JObj(<<>>), i + 2)
                ELSE ParseMembers(toks, i + 1, <<>>)
           [] tk = LBrack ->
                IF IsPunct(toks, i + 1, "]") THEN POk(JArr(<<>>), i + 2)
                ELSE ParseElems(toks, i + 1, <<>>)
           [] OTHER -> PFail

\* "key" : value { , "key" : value } "}"
ParseMembers(toks, i, acc) ==
    IF ~(i <= Len(toks) /\ toks[i].k = "str" /\ IsPunct(toks, i + 1, ":"))
    THEN PFail
    ELSE LET r == ParseValue(toks, i + 2) IN
         IF ~r.ok THEN PFail
         ELSE LET m == MapInsert(acc, toks[i].v, r.val) IN
              IF IsPunct(toks, r.next, ",") THEN ParseMembers(toks, r.next + 1, m)
              ELSE IF IsPunct(toks, r.next, "}") THEN POk(JObj(m), r.next + 1)
              ELSE PFail

\* value { , value } "]"
ParseElems(toks, i, acc) ==
    LET r == ParseValue(toks, i) IN
    IF ~r.ok THEN PFail
    ELSE LET a == Append(acc, r.val) IN
         IF IsPunct(toks, r.next, ",") THEN ParseElems(toks, r.next + 1, a)
         ELSE IF IsPunct(toks, r.next, "]") THEN POk(JArr(a), r.next + 1)
         ELSE PFail

\* serde_json::from_str::<Value>: one value and nothing after it.
from_str(toks) ==
    LET r == ParseValue(toks, 1) IN
    IF r.ok /\ r.next = Len(toks) + 1 THEN [ok |-> TRUE, val |-> r.val]
    ELSE [ok |-> FALSE, val |-> JNull]

\* Value::get("event"): Some only for an object that has the key.
get(v, k) ==
    IF v.t = "obj" /\ \E i \in DOMAIN v.m : v.m[i].key = k
    THEN [some |-> TRUE, val |-> (v.m[CHOOSE i \in DOMAIN v.m : v.m[i].key = k]).val]
    ELSE [some |-> FALSE, val |-> JNull]

\* .and_then(|v| v.as_str()): Some only for a string value.
as_str(o) ==
    IF o.some /\ o.val.t = "str" THEN [some |-> TRUE, str |-> o.val.s[1]]
    ELSE [some |-> FALSE, str |-> ""]

\* ------------------------------------------------------------- events

\* An event on the sink.  name and payload are what app.emit is given;
\* src ("stdout", "stderr", "sup") and idx (position of the line in the
\* child's script, 0 for the supervisor's own events) record its origin.
Event(name, payload, src, idx) ==
    [name |-> name, payload |-> payload, src |-> src, idx |-> idx]

\* Decode with the `event` tag ignored: every parsed line goes out as "log".
Decode_Untagged(l) ==
    LET p == from_str(l) IN
    IF p.ok THEN [name |-> "log", payload |-> p.val]
    ELSE [name |-> "log_raw", payload |-> Text(<<>>, l)]

\* Decode with the fallback of process.rs:76 published under "log".
Decode_RawAsLog(l) ==
    LET p == from_str(l) IN
    IF p.ok
    THEN LET event_type == as_str(get(p.val, "event")) IN
         IF event_type.some
         THEN [name |-> event_type.str, payload |-> p.val]
         ELSE [name |-> "log", payload |-> p.val]
    ELSE [name |-> "log", payload |-> Text(<<>>, l)]

\* Decode taking the `event` member as the name whatever its type (the
\* as_str filter of process.rs:70 left out).
Decode_AnyEvent(l) ==
    LET p == from_str(l) IN
    IF p.ok
    THEN LET ev == get(p.val, "event") IN
         IF ev.some /\ ev.val.s # <<>>
         THEN [name |-> ev.val.s[1], payload |-> p.val]
         ELSE [name |-> "log", payload |-> p.val]
    ELSE [name |-> "log_raw", payload |-> Text(<<>>, l)]

\* The name and payload published for a stdout line l (process.rs:69-77).
Decode(l) ==
    LET p == from_str(l) IN
    IF p.ok
    THEN LET event_type == as_str(get(p.val, "event")) IN
         IF event_type.some
         THEN [name |-> event_type.str, payload |-> p.val]
         ELSE [name |-> "log", payload |-> p.val]
    ELSE [name |-> "log_raw", payload |-> Text(<<>>, l)]

\* DecodeStderr running the stdout decoder on the line.
DecodeStderr_AsStdout(l) == Decode(l)

\* The name and payload published for a stderr line l (process.rs:92).
DecodeStderr(l) == [name |-> "log_raw", payload |-> Text(<<"STDERR: ">>, l)]

\* app.emit: one atomic publication, appended to what the sink has seen.
emit(s, e) == Append(s, e)

\* ReadLine taking the newest line in the pipe instead of the oldest.
ReadLine_Newest(pipe) ==
    [item |-> pipe[Len(pipe)], rest |-> SubSeq(pipe, 1, Len(pipe) - 1)]

\* BufRead::lines, one call of next() on a non-empty pipe: the item is the
\* oldest line written and not yet read; the rest stays in the pipe.
ReadLine(pipe) == [item |-> Head(pipe), rest |-> Tail(pipe)]

\* StdoutPublish without the else branch of process.rs:75-77: a line that
\* is not JSON is dropped.
StdoutPublish_NoElse(s, item, i) ==
    IF item.ok /\ from_str(item.toks).ok
    THEN LET d == Decode(item.toks) IN emit(s, Event(d.name, d.payload, "stdout", i))
    ELSE s

\* StdoutPublish with a decoder that keeps state: once something has been
\* published, every further line goes out as log_raw.
StdoutPublish_Stateful(s, item, i) ==
    IF item.ok
    THEN LET d == IF s = <<>> THEN Decode(item.toks)
                  ELSE [name |-> "log_raw", payload |-> Text(<<>>, item.toks)]
         IN  emit(s, Event(d.name, d.payload, "stdout", i))
    ELSE s

\* The body of the stdout loop for the item at script position i
\* (process.rs:67-78): what the sink holds afterwards.
StdoutPublish(s, item, i) ==
    IF item.ok
    THEN LET d == Decode(item.toks) IN emit(s, Event(d.name, d.payload, "stdout", i))
    ELSE s

\* The body of the stderr loop (process.rs:91-93).
StderrPublish(s, item, i) ==
    IF item.ok
    THEN LET d == DecodeStderr(item.toks) IN emit(s, Event(d.name, d.payload, "stderr", i))
    ELSE s

\* ---------------------------------------------------------- the child

Streams == {"stdout", "stderr"}

Entries ==
    {[stream |-> "stdout", line |-> l] : l \in StdoutLines}
        \cup {[stream |-> "stderr", line |-> l] : l \in StderrLines}

\* What a child does: a finite sequence of line writes, then exit.
Scripts == UNION {[1..n -> Entries] : n \in 0..MaxLines}

\* std::process::ExitStatus as Display prints it.
ExitStatuses == {"exit status: 0", "exit status: 1", "signal: 9"}

\* io::Error of a failed spawn / a failed wait, as Display prints it.
SpawnErrors == {"No such file or directory", "Permission denied"}
WaitErrors == {"No child processes"}

\* ------------------------------------------------- the command line

\* A string is a sequence of fragments; Str(x) is the literal x.
Str(x) == <<x>>
None == [some |-> FALSE, val |-> <<>>]
Some(v) == [some |-> TRUE, val |-> v]

\* [String]::join with the files in reverse order.
RECURSIVE join_Reversed(_, _)
join_Reversed(v, sep) ==
    IF v = <<>> THEN <<>>
    ELSE IF Len(v) = 1 THEN v[1]
    ELSE v[Len(v)] \o sep \o join_Reversed(SubSeq(v, 1, Len(v) - 1), sep)

\* [String]::join: the elements in order, sep between neighbours
\* (process.rs:31).
RECURSIVE join(_, _)
join(v, sep) ==
    IF v = <<>> THEN <<>>
    ELSE IF Len(v) = 1 THEN v[1]
    ELSE v[1] \o sep \o join(Tail(v), sep)

\* The parameters of run_python_transcription (process.rs:14-21).
RunArgs(python_path, script_path, files, outdir, config) ==
    [python_path |-> python_path, script_path |-> script_path,
     files |-> files, outdir |-> outdir, config |-> config]
NoArgs == RunArgs(<<>>, <<>>, <<>>, <<>>, None)

\* The arguments given to the command (process.rs:27-37).
BuildArgs(a) ==
    <<Str("-m"), Str("app.cli"), Str("transcribe"), Str("--files"),
      join(a.files, Str(",")), Str("--outdir"), a.outdir>>
        \o (IF a.config.some THEN <<Str("--config"), a.config.val>> ELSE <<>>)

\* The arguments of the tauri command and the HOME variable it reads
\* (commands.rs:6-11, 23); made = FALSE when run_python_transcription is
\* called directly.
Request(home, files, outdir, config_path) ==
    [made |-> TRUE, home |-> home, files |-> files, outdir |-> outdir,
     config_path |-> config_path]
NoRequest ==
    [made |-> FALSE, home |-> None, files |-> <<>>, outdir |-> <<>>,
     config_path |-> None]

\* What start_transcription passes to run_python_transcription
\* (commands.rs:23-44).
ArgsOf(req) ==
    LET home_dir == IF req.home.some THEN req.home.val ELSE Str("/Users/dragonpd")
        project_root == home_dir \o Str("/Sophia")
        python_path == project_root \o Str("/.venv/bin/python")
        script_dir == project_root \o Str("/core")
        final_config_path ==
            IF req.config_path.some THEN req.config_path.val
            ELSE project_root \o Str("/sone/subtitle.asr.sone")
    IN  RunArgs(python_path, script_dir, req.files, req.outdir,
                Some(final_config_path))

FileNames == {Str("a.wav"), Str("b.wav")}
FileLists == UNION {[1..n -> FileNames] : n \in 0..MaxFiles}
Homes == {None, Some(Str("/home/u"))}
ConfigPaths == {None, Some(Str("my.sone"))}
OutDirs == {Str("out")}

\* All calls of the tauri command.
Requests ==
    {Request(h, f, o, c) : h \in Homes, f \in FileLists, o \in OutDirs,
                           c \in ConfigPaths}

\* The one call the sessions of Spec start from.
FixedRequest == Request(Some(Str("/home/u")), <<Str("a.wav"), Str("b.wav")>>,
                        Str("out"), None)

\* Direct calls of run_python_transcription.
DirectArgs ==
    {RunArgs(Str("python"), Str("core"), f, o, c) :
        f \in FileLists, o \in OutDirs, c \in ConfigPaths}

\* The children of ArgsSpec write at most ArgsMaxLines lines.
ShortScripts == UNION {[1..n -> Entries] : n \in 0..ArgsMaxLines}

\* ------------------------------------------------------------- state

VARIABLES
    callerPc,     \* "idle", "run" (inside run_python_transcription, thread
                  \* spawned), "cmd" (back in start_transcription), "returned"
    runResult,    \* what run_python_transcription returned: "none", "Ok", "Err"
    callerResult, \* what start_transcription returned: "none", "Ok", "Err"
    supPc,        \* supervisor thread: "none", "start", "stdout", "wait", "done"
    errPc,        \* stderr reader thread: "none", "reading", "done"
    spawned,      \* outcome of cmd.spawn(): "pending", "ok", "failed"
    script,       \* the writes the spawned child performs
    childPos,     \* index of the child's next write
    childState,   \* "none", "running", "exited"
    exitStatus,   \* the child's exit status once exited
    outPipe,      \* stdout pipe: script positions written and not yet read
    errPipe,      \* stderr pipe
    waitResult,   \* outcome of child.wait(): "none", "ok", "err"
    request,      \* the call of start_transcription (NoRequest before it)
    args,         \* the parameters moved into the supervisor thread
    argv,         \* the argument vector of the spawned child
    sink          \* sequence of events published with app.emit

vars ==
    <<callerPc, runResult, callerResult, supPc, errPc, spawned, script,
      childPos, childState, exitStatus, outPipe, errPipe, waitResult,
      request, args, argv, sink>>

callerVars == <<callerPc, runResult, callerResult>>
childVars == <<script, childPos, childState, exitStatus>>
cmdVars == <<request, args, argv>>

Init ==
    /\ callerPc = "idle"
    /\ runResult = "none"
    /\ callerResult = "none"
    /\ supPc = "none"
    /\ errPc = "none"
    /\ spawned = "pending"
    /\ script = <<>>
    /\ childPos = 1
    /\ childState = "none"
    /\ exitStatus = "none"
    /\ outPipe = <<>>
    /\ errPipe = <<>>
    /\ waitResult = "none"
    /\ request = NoRequest
    /\ args = NoArgs
    /\ argv = <<>>
    /\ sink = <<>>

\* ------------------------------------------------------------ caller

\* start_transcription calls run_python_transcription, whose first step
\* hands the whole supervision to a new thread (process.rs:23).
start_transcription(req) ==
    /\ callerPc = "idle"
    /\ callerPc' = "run"
    /\ supPc' = "start"
    /\ request' = req
    /\ args' = ArgsOf(req)
    /\ UNCHANGED <<argv, waitResult, runResult, callerResult, errPc, spawned,
                   childVars, outPipe, errPipe, sink>>

StartTranscription == start_transcription(FixedRequest)

\* The same call with any arguments.
StartTranscriptionAny == \E req \in Requests : start_transcription(req)

\* run_python_transcription called directly, with or without a config:
\* the supervision is handed to a new thread (process.rs:23).
RunDirect ==
    /\ callerPc = "idle"
    /\ callerPc' = "direct"
    /\ supPc' = "start"
    /\ \E a \in DirectArgs : args' = a
    /\ UNCHANGED <<request, argv, waitResult, runResult, callerResult, errPc,
                   spawned, childVars, outPipe, errPipe, sink>>

\* The direct call returns Ok(()) (process.rs:110).
RunReturnDirect ==
    /\ callerPc = "direct"
    /\ callerPc' = "returned"
    /\ runResult' = "Ok"
    /\ UNCHANGED <<cmdVars, waitResult, callerResult, supPc, errPc, spawned,
                   childVars, outPipe, errPipe, sink>>

\* RunReturn joining the supervisor thread before it returns.
RunReturn_Join ==
    /\ callerPc = "run"
    /\ supPc = "done"
    /\ callerPc' = "cmd"
    /\ runResult' = "Ok"
    /\ UNCHANGED <<cmdVars, waitResult, callerResult, supPc, errPc, spawned, script, childPos,
                   childState, exitStatus, outPipe, errPipe, sink>>

\* run_python_transcription returns Ok(()) (process.rs:110).
RunReturn ==
    /\ callerPc = "run"
    /\ callerPc' = "cmd"
    /\ runResult' = "Ok"
    /\ UNCHANGED <<cmdVars, waitResult, callerResult, supPc, errPc, spawned, childVars,
                   outPipe, errPipe, sink>>

\* start_transcription: `?` on the result, then Ok("Started")
\* (commands.rs:44-46).
CmdReturn ==
    /\ callerPc = "cmd"
    /\ callerPc' = "returned"
    /\ callerResult' = IF runResult = "Ok" THEN "Ok" ELSE "Err"
    /\ UNCHANGED <<cmdVars, waitResult, runResult, supPc, errPc, spawned, childVars,
                   outPipe, errPipe, sink>>

\* -------------------------------------------------------- supervisor

\* cmd.spawn() succeeds: the child runs with both streams piped
\* (process.rs:50-54); the supervisor enters the stdout loop.
spawn_ok(scripts) ==
    /\ supPc = "start"
    /\ argv' = BuildArgs(args)
    /\ \E sc \in scripts : script' = sc
    /\ spawned' = "ok"
    /\ childState' = "running"
    /\ supPc' = "stdout"
    /\ UNCHANGED <<request, args, waitResult, callerVars, errPc, childPos,
                   exitStatus, outPipe, errPipe, sink>>

SpawnOk == spawn_ok(Scripts)

\* The same step with a child that writes at most ArgsMaxLines lines.
SpawnOkShort == spawn_ok(ShortScripts)

\* SpawnFail without the `return` of process.rs:57: the thread goes on to
\* the stdout loop.
SpawnFail_NoReturn ==
    /\ supPc = "start"
    /\ \E e \in SpawnErrors :
         sink' = emit(sink, Event("run_error",
                                  Text(<<"Failed to spawn python: ", e>>, <<>>),
                                  "sup", 0))
    /\ spawned' = "failed"
    /\ supPc' = "stdout"
    /\ UNCHANGED <<cmdVars, waitResult, callerPc, runResult, callerResult, errPc, script, childPos,
                   childState, exitStatus, outPipe, errPipe>>

\* cmd.spawn() fails: run_error, and the thread returns (process.rs:55-58).
SpawnFail ==
    /\ supPc = "start"
    /\ \E e \in SpawnErrors :
         sink' = emit(sink, Event("run_error",
                                  Text(<<"Failed to spawn python: ", e>>, <<>>),
                                  "sup", 0))
    /\ spawned' = "failed"
    /\ supPc' = "done"
    /\ UNCHANGED <<cmdVars, waitResult, callerVars, errPc, childVars, outPipe, errPipe>>

\* One iteration of `for line in reader.lines()` on stdout
\* (process.rs:66-79): an Ok line is decoded and published, an Err item
\* is skipped.
StdoutReadLine ==
    /\ supPc = "stdout"
    /\ outPipe # <<>>
    /\ LET r == ReadLine(outPipe) IN
         /\ sink' = StdoutPublish(sink, script[r.item].line, r.item)
         /\ outPipe' = r.rest
    /\ UNCHANGED <<cmdVars, waitResult, callerVars, supPc, errPc, spawned, childVars, errPipe>>

\* StdoutEof leaving the loop as soon as the child has exited, without
\* draining what is left in the pipe.
StdoutEof_NoDrain ==
    /\ supPc = "stdout"
    /\ childState = "exited"
    /\ errPc' = "reading"
    /\ supPc' = "wait"
    /\ UNCHANGED <<cmdVars, waitResult, callerPc, runResult, callerResult, spawned,
                   script, childPos, childState, exitStatus, outPipe, errPipe,
                   sink>>

\* The stdout loop ends at end-of-stream (the pipe is drained and its
\* write end closed); only then is the stderr thread spawned
\* (process.rs:87-96) and the supervisor goes on to child.wait().
StdoutEof ==
    /\ supPc = "stdout"
    /\ outPipe = <<>>
    /\ childState = "exited"
    /\ errPc' = "reading"
    /\ supPc' = "wait"
    /\ UNCHANGED <<cmdVars, waitResult, callerVars, spawned, childVars, outPipe, errPipe, sink>>

\* WaitOk reporting only a zero exit status as process_exit and any other
\* status as process_error.
WaitOk_ZeroOnly ==
    /\ supPc = "wait"
    /\ childState = "exited"
    /\ sink' = emit(sink, Event(IF exitStatus = "exit status: 0"
                                THEN "process_exit" ELSE "process_error",
                                Text(<<"Exit code: ", exitStatus>>, <<>>),
                                "sup", 0))
    /\ waitResult' = "ok"
    /\ supPc' = "done"
    /\ UNCHANGED <<cmdVars, callerPc, runResult, callerResult, errPc, spawned, script,
                   childPos, childState, exitStatus, outPipe, errPipe>>

\* child.wait() returns Ok(status) once the child has exited
\* (process.rs:99-103).
WaitOk ==
    /\ supPc = "wait"
    /\ childState = "exited"
    /\ sink' = emit(sink, Event("process_exit",
                                Text(<<"Exit code: ", exitStatus>>, <<>>),
                                "sup", 0))
    /\ waitResult' = "ok"
    /\ supPc' = "done"
    /\ UNCHANGED <<cmdVars, callerVars, errPc, spawned, childVars, outPipe, errPipe>>

\* child.wait() returns Err(e) (process.rs:104-106).
WaitErr ==
    /\ supPc = "wait"
    /\ \E e \in WaitErrors :
         sink' = emit(sink, Event("process_error",
                                  Text(<<"Wait error: ", e>>, <<>>),
                                  "sup", 0))
    /\ waitResult' = "err"
    /\ supPc' = "done"
    /\ UNCHANGED <<cmdVars, callerVars, errPc, spawned, childVars, outPipe, errPipe>>

\* ----------------------------------------------------- stderr thread

\* One iteration of the stderr loop (process.rs:90-94).
StderrReadLine ==
    /\ errPc = "reading"
    /\ errPipe # <<>>
    /\ LET r == ReadLine(errPipe) IN
         /\ sink' = StderrPublish(sink, script[r.item].line, r.item)
         /\ errPipe' = r.rest
    /\ UNCHANGED <<cmdVars, waitResult, callerVars, supPc, errPc, spawned, childVars, outPipe>>

\* The stderr loop ends at end-of-stream and the thread finishes.
StderrEof ==
    /\ errPc = "reading"
    /\ errPipe = <<>>
    /\ childState = "exited"
    /\ errPc' = "done"
    /\ UNCHANGED <<cmdVars, waitResult, callerVars, supPc, spawned, childVars, outPipe, errPipe,
                   sink>>

\* -------------------------------------------------------------- child

\* The child writes its next line; the write blocks while the pipe is full.
ChildWrite ==
    /\ childState = "running"
    /\ childPos <= Len(script)
    /\ IF script[childPos].stream = "stdout"
       THEN /\ Len(outPipe) < PipeCap
            /\ outPipe' = Append(outPipe, childPos)
            /\ errPipe' = errPipe
       ELSE /\ Len(errPipe) < PipeCap
            /\ errPipe' = Append(errPipe, childPos)
            /\ outPipe' = outPipe
    /\ childPos' = childPos + 1
    /\ UNCHANGED <<cmdVars, waitResult, callerVars, supPc, errPc, spawned, script, childState,
                   exitStatus, sink>>

\* The child has written everything and exits; both write ends close.
ChildExit ==
    /\ childState = "running"
    /\ childPos > Len(script)
    /\ childState' = "exited"
    /\ \E st \in ExitStatuses : exitStatus' = st
    /\ UNCHANGED <<cmdVars, waitResult, callerVars, supPc, errPc, spawned, script, childPos,
                   outPipe, errPipe, sink>>

\* ------------------------------------------------------ specification

Caller == StartTranscription \/ RunReturn \/ CmdReturn
Supervisor == SpawnOk \/ SpawnFail \/ StdoutReadLine \/ StdoutEof \/ WaitOk \/ WaitErr
StderrReader == StderrReadLine \/ StderrEof
Child == ChildWrite \/ ChildExit

Next ==
    \/ StartTranscription
    \/ RunReturn
    \/ CmdReturn
    \/ SpawnOk
    \/ SpawnFail
    \/ StdoutReadLine
    \/ StdoutEof
    \/ WaitOk
    \/ WaitErr
    \/ StderrReadLine
    \/ StderrEof
    \/ ChildWrite
    \/ ChildExit

Spec == Init /\ [][Next]_vars

\* Every thread that can take a step eventually takes one: the OS schedules
\* the caller, the supervisor thread, the stderr thread and the child.
FairSpec ==
    /\ Spec
    /\ WF_vars(Caller)
    /\ WF_vars(Supervisor)
    /\ WF_vars(StderrReader)
    /\ WF_vars(Child)

\* The sessions of any call, through the tauri command or directly, with
\* children that write at most ArgsMaxLines lines.
ArgsNext ==
    \/ StartTranscriptionAny
    \/ RunDirect
    \/ RunReturn
    \/ RunReturnDirect
    \/ CmdReturn
    \/ SpawnOkShort
    \/ SpawnFail
    \/ StdoutReadLine
    \/ StdoutEof
    \/ WaitOk
    \/ WaitErr
    \/ StderrReadLine
    \/ StderrEof
    \/ ChildWrite
    \/ ChildExit

ArgsSpec == Init /\ [][ArgsNext]_vars

\* ------------------------------------------------------------- claims

TerminalNames == {"process_exit", "process_error"}

\* Positions in the sink of events named process_exit or process_error.
NamedTerminal == {i \in DOMAIN sink : sink[i].name \in TerminalNames}

\* Positions in the sink of the supervisor's own terminal event.
SupTerminal ==
    {i \in DOMAIN sink : sink[i].src = "sup" /\ sink[i].name \in TerminalNames}

\* Positions in the sink of events derived from a line of the given stream.
FromStream(st) == {i \in DOMAIN sink : sink[i].src = st}

\* Script position k has been written by the child and read by its reader.
WasRead(k) ==
    /\ k \in DOMAIN script
    /\ k < childPos
    /\ LET pipe == IF script[k].stream = "stdout" THEN outPipe ELSE errPipe
       IN  \A j \in DOMAIN pipe : pipe[j] # k

\* Both readers have reached end-of-stream.
ReadersDone == supPc \in {"wait", "done"} /\ errPc = "done"

\* C1: in a session whose spawn succeeded the sink never holds more than
\* one event named process_exit or process_error, and holds exactly one
\* once the supervisor has finished, whatever lines the child writes.
C1_OneTerminalNamedEvent ==
    spawned = "ok" =>
        /\ Cardinality(NamedTerminal) <= 1
        /\ (supPc = "done" => Cardinality(NamedTerminal) = 1)

\* C2: the supervisor's terminal event is the last event of the session:
\* nothing is published after it.
C2_TerminalIsLast == \A i \in SupTerminal : i = Len(sink)

\* C3: every started session eventually publishes run_error or a terminal
\* event of the supervisor.
C3_EventuallyTerminal ==
    (supPc = "start") ~> (\E i \in DOMAIN sink : sink[i].src = "sup")

\* C4: the stderr reader runs concurrently with the stdout reader: while
\* stdout is still being read, a line waiting in the stderr pipe can be read.
C4_StderrReadWhileStdoutOpen ==
    (spawned = "ok" /\ supPc = "stdout" /\ errPipe # <<>>) => ENABLED StderrReadLine

\* C5: every readable line that has been read has exactly one event in the
\* sink, every other line has none, and once both readers are at
\* end-of-stream the stream-derived events are as many as the readable
\* lines the child wrote.
C5_NoLineLostOrDuplicated ==
    /\ \A k \in DOMAIN script :
         Cardinality({i \in FromStream(script[k].stream) : sink[i].idx = k})
             = IF WasRead(k) /\ script[k].line.ok THEN 1 ELSE 0
    /\ ReadersDone =>
         Cardinality(FromStream("stdout") \cup FromStream("stderr"))
             = Cardinality({k \in DOMAIN script : script[k].line.ok})

\* C5 witness: both readers are done and each stream carried a readable
\* line, stdout also an unreadable one.
C5_Witness ==
    /\ ReadersDone
    /\ \E k \in DOMAIN script : script[k].stream = "stdout" /\ script[k].line.ok
    /\ \E k \in DOMAIN script : script[k].stream = "stdout" /\ ~script[k].line.ok
    /\ \E k \in DOMAIN script : script[k].stream = "stderr" /\ script[k].line.ok

\* C6: events of lines of one stream appear in the sink in the order the
\* child wrote the lines.
C6_PerStreamOrder ==
    \A i, j \in DOMAIN sink :
        (i < j /\ sink[i].src = sink[j].src /\ sink[i].src \in Streams)
            => sink[i].idx < sink[j].idx

\* C6 witness: two stdout events and a stderr event are in the sink.
C6_Witness ==
    /\ Cardinality(FromStream("stdout")) >= 2
    /\ Cardinality(FromStream("stderr")) >= 1

\* C7: after a failed spawn the sink holds exactly one run_error, no
\* stream-derived event and no process_exit or process_error; no reader was
\* started and the supervisor thread has returned.
C7_SpawnFailureShortCircuit ==
    spawned = "failed" =>
        /\ Cardinality({i \in DOMAIN sink : sink[i].name = "run_error"}) = 1
        /\ \A i \in DOMAIN sink :
             sink[i].src \notin Streams /\ sink[i].name \notin TerminalNames
        /\ supPc = "done"
        /\ errPc = "none"
        /\ childState = "none"

\* C7 witness: the spawn failed and run_error is in the sink.
C7_Witness ==
    /\ spawned = "failed"
    /\ \E i \in DOMAIN sink : sink[i].name = "run_error"
    /\ callerPc = "returned"

\* C8: the caller is never blocked: in every state in which it is inside
\* run_python_transcription or start_transcription its next step is enabled,
\* whatever the supervisor, the stderr thread and the child are doing.
C8_StartNeverBlocks ==
    /\ callerPc = "idle" => ENABLED StartTranscription
    /\ callerPc = "run" => ENABLED RunReturn
    /\ callerPc = "cmd" => ENABLED CmdReturn

\* C8 witness: the caller has returned while the child is still running
\* with lines left to write and the supervisor is in the stdout loop.
C8_Witness ==
    /\ callerPc = "returned"
    /\ childState = "running"
    /\ childPos <= Len(script)
    /\ supPc = "stdout"

\* C9: start returns success only after the spawn succeeded, and an attempt
\* whose spawn failed returns an error.
C9_ResultReflectsSpawn ==
    /\ callerResult = "Ok" => spawned = "ok"
    /\ (callerPc = "returned" /\ spawned = "failed") => callerResult = "Err"

\* The stdout line at script position k is a JSON object with a
\* string-valued `event` member.
\* from_str tabulated over the texts a child can write.
ParseOf == [l \in {x.toks : x \in StdoutLines \cup StderrLines} |-> from_str(l)]

\* The result of parsing the text of the line at script position k.
Parsed(k) == ParseOf[script[k].line.toks]

\* p is a parsed JSON object with a string-valued `event` member.
HasEventStr(p) ==
    /\ p.ok
    /\ p.val.t = "obj"
    /\ \E j \in DOMAIN p.val.m :
         p.val.m[j].key = "event" /\ p.val.m[j].val.t = "str"

\* The line at script position k is text that parses to such an object.
IsTagged(k) == script[k].line.ok /\ HasEventStr(Parsed(k))

\* C10: a stdout line that is a JSON object with a string `event` member is
\* published under that member's value with the whole parsed object as
\* payload.
C10_TaggedLinePublishedUnderItsName ==
    \A k \in DOMAIN script :
        (script[k].stream = "stdout" /\ script[k].line.ok /\ WasRead(k)) =>
            LET p == Parsed(k) IN
            HasEventStr(p) =>
                /\ \E i \in FromStream("stdout") : sink[i].idx = k
                /\ \A i \in FromStream("stdout") :
                     sink[i].idx = k =>
                         /\ \E j \in DOMAIN p.val.m :
                              /\ p.val.m[j].key = "event"
                              /\ p.val.m[j].val = JStr(sink[i].name)
                         /\ sink[i].payload = p.val

\* C10 witness: the line {"event":"progress","pct":50} was published as
\* "progress" with both members in the payload.
C10_Witness ==
    \E i \in FromStream("stdout") :
        /\ sink[i].name = "progress"
        /\ Len(sink[i].payload.m) = 2

\* The events in the sink derived from the line at script position k.
EventsOf(k) == {i \in FromStream(script[k].stream) : sink[i].idx = k}

\* C11: a stdout line that is not JSON (the empty line included) is
\* published as log_raw with exactly the line text as payload; every such
\* line read has its event, so decoding never fails.
C11_UnparsableLineIsLogRaw ==
    \A k \in DOMAIN script :
        (/\ script[k].stream = "stdout"
         /\ script[k].line.ok
         /\ WasRead(k)
         /\ ~Parsed(k).ok) =>
            /\ EventsOf(k) # {}
            /\ \A i \in EventsOf(k) :
                 /\ sink[i].name = "log_raw"
                 /\ sink[i].payload = Text(<<>>, script[k].line.toks)

\* C11 witness: the empty line and the line `hello world` are both in the
\* sink as log_raw.
C11_Witness ==
    /\ \E i \in FromStream("stdout") :
         sink[i].name = "log_raw" /\ script[sink[i].idx].line.toks = L_empty
    /\ \E i \in FromStream("stdout") :
         sink[i].name = "log_raw" /\ script[sink[i].idx].line.toks = L_hello

\* C12: a stdout line that is valid JSON without a string-valued `event`
\* member is published as log with the parsed value as payload.
C12_UntaggedJsonIsLog ==
    \A k \in DOMAIN script :
        (script[k].stream = "stdout" /\ script[k].line.ok /\ WasRead(k)) =>
            LET p == Parsed(k) IN
            (p.ok /\ ~HasEventStr(p)) =>
                /\ EventsOf(k) # {}
                /\ \A i \in EventsOf(k) :
                     /\ sink[i].name = "log"
                     /\ sink[i].payload = p.val

\* C12 witness: {"event":50} and a non-object value (null or ["event"])
\* are both in the sink as log.
C12_Witness ==
    /\ \E i \in FromStream("stdout") :
         sink[i].name = "log" /\ script[sink[i].idx].line.toks = L_evnum
    /\ \E i \in FromStream("stdout") :
         /\ sink[i].name = "log"
         /\ script[sink[i].idx].line.toks \in {L_null, L_arr}

\* C13: a read error ends the reader's loop: no line that follows a failed
\* read on its stream is published.
C13_ReadErrorEndsLoop ==
    \A i \in FromStream("stdout") \cup FromStream("stderr") :
        ~\E k \in 1..(sink[i].idx - 1) :
            script[k].stream = sink[i].src /\ ~script[k].line.ok

\* C14: every stderr line read is published as log_raw with the payload
\* "STDERR: " followed by the line text, JSON or not.
C14_StderrLineIsPrefixedLogRaw ==
    /\ \A i \in FromStream("stderr") : sink[i].name = "log_raw"
    /\ \A k \in DOMAIN script :
         (script[k].stream = "stderr" /\ script[k].line.ok /\ WasRead(k)) =>
            /\ EventsOf(k) # {}
            /\ \A i \in EventsOf(k) :
                 sink[i].payload = Text(<<"STDERR: ">>, script[k].line.toks)

\* C14 witness: the stderr line {"event":"progress","pct":50} is in the
\* sink as log_raw.
C14_Witness ==
    \E i \in FromStream("stderr") :
        sink[i].name = "log_raw" /\ script[sink[i].idx].line.toks = L_progress

\* Positions in the sink of the supervisor's event of the given name.
SupNamed(n) == {i \in DOMAIN sink : sink[i].src = "sup" /\ sink[i].name = n}

\* C15: the supervisor publishes process_exit exactly when child.wait()
\* succeeded, whatever the exit status (which the payload reports), and
\* process_error exactly when it failed; never more than one of them.
C15_TerminalNameFollowsWait ==
    /\ SupNamed("process_exit") # {} <=> waitResult = "ok"
    /\ SupNamed("process_error") # {} <=> waitResult = "err"
    /\ Cardinality(SupTerminal) <= 1
    /\ \A i \in SupNamed("process_exit") :
         sink[i].payload = Text(<<"Exit code: ", exitStatus>>, <<>>)

\* C15 witness: the child was killed by a signal, wait succeeded and
\* process_exit is in the sink.
C15_Witness ==
    /\ waitResult = "ok"
    /\ exitStatus = "signal: 9"
    /\ SupNamed("process_exit") # {}

\* The name and payload of the events of the readable lines of the script
\* from position k on, in script order.
RECURSIVE DecodedFrom(_)
DecodedFrom(k) ==
    IF k > Len(script) THEN <<>>
    ELSE (IF script[k].line.ok THEN <<Decode(script[k].line.toks)>> ELSE <<>>)
             \o DecodedFrom(k + 1)

StdoutOnly == \A k \in DOMAIN script : script[k].stream = "stdout"

\* C16: the supervisor waits and publishes its terminal event only after
\* the stdout reader has read everything, so every stdout event precedes
\* it; for a child that writes to stdout only, the finished session's sink
\* is exactly the decoded lines in order followed by the terminal event.
C16_StdoutEventsBeforeTerminal ==
    /\ \A i \in SupTerminal : \A j \in FromStream("stdout") : j < i
    /\ (spawned = "ok" /\ supPc \in {"wait", "done"}) =>
         \A k \in DOMAIN script : script[k].stream = "stdout" => WasRead(k)
    /\ (spawned = "ok" /\ supPc = "done" /\ StdoutOnly) =>
         LET exp == DecodedFrom(1) IN
         /\ Len(sink) = Len(exp) + 1
         /\ \A i \in DOMAIN exp :
              /\ sink[i].src = "stdout"
              /\ sink[i].name = exp[i].name
              /\ sink[i].payload = exp[i].payload
         /\ Len(sink) \in SupTerminal

\* C16 witness: a child that wrote three stdout lines, one of them
\* {"event":"progress","pct":50}, has finished and the sink ends with the
\* terminal event.
C16_Witness ==
    /\ spawned = "ok"
    /\ supPc = "done"
    /\ StdoutOnly
    /\ Len(script) = MaxLines
    /\ \E k \in DOMAIN script : script[k].line.toks = L_progress
    /\ Len(sink) \in SupTerminal

SupervisorNames == {"run_error", "process_exit", "process_error"}

\* The files in order with "," between neighbours, built from the right.
RECURSIVE Joined(_)
Joined(fs) ==
    IF fs = <<>> THEN <<>>
    ELSE IF Len(fs) = 1 THEN fs[1]
    ELSE Joined(SubSeq(fs, 1, Len(fs) - 1)) \o <<",">> \o fs[Len(fs)]

\* C19: the argument vector of the spawned child is -m app.cli transcribe
\* --files F --outdir outdir, followed by --config cfg exactly when
\* run_python_transcription was given a config, F being the files joined
\* with "," in the caller's order; start_transcription passes the caller's
\* files, outdir and config path on unchanged.
C19_ArgvAsBuilt ==
    /\ spawned # "ok" => argv = <<>>
    /\ spawned = "ok" =>
         /\ Len(argv) = IF args.config.some THEN 9 ELSE 7
         /\ SubSeq(argv, 1, 7) =
              <<(<<"-m">>), (<<"app.cli">>), (<<"transcribe">>), (<<"--files">>),
                Joined(args.files), (<<"--outdir">>), args.outdir>>
         /\ args.config.some =>
              SubSeq(argv, 8, 9) = <<(<<"--config">>), args.config.val>>
         /\ request.made =>
              /\ args.files = request.files
              /\ args.outdir = request.outdir
              /\ request.config_path.some =>
                   args.config = request.config_path

\* C19 witness: a child was spawned without a config for two different
\* files, b.wav before a.wav.
C19_Witness ==
    /\ spawned = "ok"
    /\ ~args.config.some
    /\ args.files = <<(<<"b.wav">>), (<<"a.wav">>)>>
    /\ Len(argv) = 7

\* C18: an event named run_error, process_exit or process_error is in the
\* sink only as the supervisor's own publication, never as the decoding of
\* a line of child output.
C18_ReservedNamesNotForged ==
    \A i \in DOMAIN sink : sink[i].name \in SupervisorNames => sink[i].src = "sup"

====
